---------------------------- MODULE Spec2Model ----------------------------
(***************************************************************************)
(* Model of the fishing-score engine (sensor_berechnung.py).               *)
(*                                                                         *)
(* Units.  Python floats are modelled as fixed-point integers:             *)
(*   temperatures   1/1000 degC        depths        1/1000 m              *)
(*   wind speed     1/1000 m/s         cloud, light  1/1000 (0..1000)      *)
(*   precipitation  1/1000 mm/h        scores        1/1000 weight point   *)
(*   instants       milliseconds since local midnight of "today"           *)
(* The input sets below are chosen so that every product and quotient of   *)
(* the code is exact at this resolution; only exp() is approximated.       *)
(*                                                                         *)
(* Optional values (dict entries, Optional[datetime]) are tagged records:  *)
(*   Absent  the key is not in the dict                                    *)
(*   Null    the key is present with value None (JSON null)                *)
(*   Num(x)  a number                                                      *)
(* Keys with umlauts are written in ASCII (Oberflaeche_temp, Truebung,     *)
(* Bewoelkung, Fruehling, Daemmerung).                                     *)
(***************************************************************************)
EXTENDS Integers, Sequences, FiniteSets, TLC

Absent == [tag |-> "absent", v |-> 0]
Null == [tag |-> "null", v |-> 0]
Num(x) == [tag |-> "num", v |-> x]

\* dict.get(key, default): the default replaces only an absent key
get(e, default) == IF e.tag = "absent" THEN Num(default) ELSE e

\* `x is None` for the result of dict.get(key)
IsNone(e) == e.tag # "num"

Max(a, b) == IF a >= b THEN a ELSE b
Min(a, b) == IF a <= b THEN a ELSE b
Abs(a) == IF a < 0 THEN -a ELSE a
CeilDiv(a, b) == -((-a) \div b)

RECURSIVE SeqSum(_)
SeqSum(s) == IF s = <<>> THEN 0 ELSE Head(s) + SeqSum(Tail(s))

SeqMin(s) == CHOOSE x \in {s[i] : i \in 1..Len(s)} : \A j \in 1..Len(s) : x <= s[j]
SeqMax(s) == CHOOSE x \in {s[i] : i \in 1..Len(s)} : \A j \in 1..Len(s) : x >= s[j]
Range(s) == {s[i] : i \in 1..Len(s)}

-----------------------------------------------------------------------------
(* Weights and buffers: the built-in fallback tables *)

WeightKeys ==
    {"Temperatur", "TempTiefe_Match", "Wassertiefe", "Saison", "Tageszeitfenster",
     "Bewoelkung", "Windrichtung", "Windig", "Luftdruck_trend", "Truebung",
     "Regen_Bonus", "Regen_Malus", "Mondphase"}

WEIGHTS ==
    [k \in WeightKeys |->
        CASE k = "Temperatur" -> 18
          [] k = "TempTiefe_Match" -> 15
          [] k = "Wassertiefe" -> 12
          [] k = "Saison" -> 10
          [] k = "Tageszeitfenster" -> 10
          [] k = "Bewoelkung" -> 6
          [] k = "Windrichtung" -> 5
          [] k = "Windig" -> 4
          [] k = "Luftdruck_trend" -> 4
          [] k = "Truebung" -> 4
          [] k = "Regen_Bonus" -> 3
          [] k = "Regen_Malus" -> 3
          [] k = "Mondphase" -> 3]

\* weights.get(key, 0)
Weight(k) == IF k \in DOMAIN WEIGHTS THEN WEIGHTS[k] ELSE 0

BUFFERS == [Daemmerung |-> 45, Tag |-> 30, Nacht |-> 30]

RECURSIVE SumOver(_, _)
SumOver(f, S) ==
    IF S = {} THEN 0
    ELSE LET k == CHOOSE x \in S : TRUE IN f[k] + SumOver(f, S \ {k})

\* sum(WEIGHTS.values()) or 1.0
total_weight == IF SumOver(WEIGHTS, DOMAIN WEIGHTS) = 0 THEN 1
                ELSE SumOver(WEIGHTS, DOMAIN WEIGHTS)

HALF_MOONS == {"Zunehmender Mond", "Abnehmender Mond"}

\* TREND_MAP.get(r, r) on lower-cased labels
TrendMapped(r) ==
    CASE r = "leicht fallend" -> "fallend"
      [] r = "leicht steigend" -> "steigend"
      [] r = "stabil" -> "stagnierend"
      [] r = "gleichbleibend" -> "stagnierend"
      [] OTHER -> r

-----------------------------------------------------------------------------
(* Helper functions *)

_clamp(val, low, high) == Max(low, Min(high, val))

\* round_to_next_five(pct) for the rational pct = num / den (den > 0)
round_to_next_five(num, den) == Max(0, Min(100, CeilDiv(num, 5 * den) * 5))

\* fraction is an optional value in 1/1000
classify_clouds(fraction) ==
    IF IsNone(fraction) THEN "unbekannt"
    ELSE IF fraction.v >= 500 THEN "bewoelkt"
    ELSE IF fraction.v <= 200 THEN "klar"
    ELSE "wechselhaft"

get_season(month) ==
    IF month \in {3, 4, 5} THEN "Fruehling"
    ELSE IF month \in {6, 7, 8} THEN "Sommer"
    ELSE IF month \in {9, 10, 11} THEN "Herbst"
    ELSE "Winter"

classify_precip(mm_h) ==
    IF IsNone(mm_h) THEN "unbekannt"
    ELSE IF mm_h.v >= 200 THEN "regen" ELSE "trocken"

\* val is the label stored under the key, "" when the key is absent
classify_truebung(val) ==
    IF val \in {"trueb", "stark trueb", "2"} THEN "trueb"
    ELSE IF val \in {"leicht trueb", "1"} THEN "leicht trueb"
    ELSE "klar"

Dirs == <<"N", "NO", "O", "SO", "S", "SW", "W", "NW">>

\* grad_to_windrichtung without the half-sector offset of 22.5 degrees
grad_to_windrichtung_no_offset(grad) ==
    IF IsNone(grad) THEN "unbekannt"
    ELSE Dirs[((grad.v \div 45) % 8) + 1]

\* grad in whole degrees: int((grad + 22.5) // 45) % 8
grad_to_windrichtung(grad) ==
    IF IsNone(grad) THEN "unbekannt"
    ELSE Dirs[(((2 * grad.v + 45) \div 90) % 8) + 1]

\* time_in_window without the branch for a window that spans midnight
time_in_window_no_wrap(now, s, e) == s <= now /\ now <= e

time_in_window(now, s, e) ==
    IF s < e THEN s <= now /\ now <= e
    ELSE now >= s \/ now <= e

\* 1000 * exp(-k) for whole k
ExpNegInt(k) ==
    CASE k = 0 -> 1000000 [] k = 1 -> 367879 [] k = 2 -> 135335 [] k = 3 -> 49787
      [] k = 4 -> 18316 [] k = 5 -> 6738 [] k = 6 -> 2479 [] k = 7 -> 912
      [] k = 8 -> 335 [] k = 9 -> 123 [] k = 10 -> 45 [] OTHER -> 0

\* 1000000 * exp(-f/1000) for 0 <= f < 1000, alternating Taylor series
RECURSIVE ExpNegFrac(_, _, _)
ExpNegFrac(f, n, term) ==
    IF n > 12 \/ term = 0 THEN 0
    ELSE term - ExpNegFrac(f, n + 1, (term * f) \div (1000 * n))

\* math.exp(-x/1000) in 1/1000, for x >= 0 in 1/1000
ExpNeg(x) ==
    ((ExpNegFrac(x % 1000, 1, 1000000) \div 1000) * ExpNegInt(x \div 1000)) \div 1000000

\* diff, sigma in 1/1000 degC, weight in points; result in 1/1000 points
gauss_score(diff, weight, sigma) ==
    IF sigma <= 0 \/ weight <= 0 THEN 0
    ELSE LET d == diff \div 10
             s2 == 2 * (sigma \div 10) * (sigma \div 10)
             q == (d * d) \div s2
             r == (d * d) % s2
             x == q * 1000 + (r * 1000) \div s2
         IN  IF q >= 11 THEN 0 ELSE weight * ExpNeg(x)

-----------------------------------------------------------------------------
(* Thermal profile model and depth selection *)

Infinity == 1000000000

\* epilimnion depth and thermocline thickness of the summer stratification
EpiDepth(surface_temp, wind) ==
    _clamp((2 * (surface_temp - 4000)) \div 10 + (2 * _clamp(wind, 0, 5000)) \div 10,
           2000, 6000)
ThermoDepth(wind) == _clamp(3000 + (3 * _clamp(wind, 0, 5000)) \div 10, 3000, 5000)

temp_profile(depth, surface_temp, season, wind, cloud) ==
    IF season = "Sommer" THEN
        LET epi == EpiDepth(surface_temp, wind)
            thermo == ThermoDepth(wind)
            hypo_start == surface_temp - (epi * 2) \div 10 - (thermo * 12) \div 10
        IN  IF depth <= epi THEN surface_temp - (depth * 2) \div 10
            ELSE IF depth <= epi + thermo
                 THEN surface_temp - (epi * 2) \div 10 - ((depth - epi) * 12) \div 10
            ELSE Max(hypo_start - ((depth - epi - thermo) * 3) \div 10, 4000)
    ELSE IF season \in {"Fruehling", "Herbst"} THEN
        surface_temp + (1000 - cloud) \div 2
    ELSE IF season = "Winter" THEN
        IF depth <= 500 THEN Max(100, surface_temp) ELSE 4000
    ELSE surface_temp

\* <<epi, thermo>>; float("inf") outside summer
stratification_layers(surface_temp, season, wind) ==
    IF season # "Sommer" THEN <<Infinity, 0>>
    ELSE <<EpiDepth(surface_temp, wind), ThermoDepth(wind)>>

\* min(candidates, key = |temp_profile(d) - target|), the first minimal element;
\* target = tsum / tn, compared after multiplying through by tn
FirstArgMin(cands, surface_temp, season, wind, cloud, tsum, tn) ==
    LET key(d) == Abs(temp_profile(d, surface_temp, season, wind, cloud) * tn - tsum)
        i == CHOOSE i \in 1..Len(cands) :
                /\ \A j \in 1..Len(cands) : key(cands[i]) <= key(cands[j])
                /\ \A j \in 1..(i - 1) : key(cands[j]) > key(cands[i])
    IN  cands[i]

\* choose_best_depth with the bias applied without the limit at the shallowest
\* and the deepest preferred depth
choose_best_depth_unlimited(surface_temp, season, pref_depths, pref_temps, tod_bias, wind_speed, cloud) ==
    IF pref_depths = <<>> THEN 0
    ELSE
        LET layers == stratification_layers(surface_temp, season, wind_speed)
            within == SelectSeq(pref_depths, LAMBDA d : d <= layers[1] + layers[2])
            candidates == IF within = <<>> THEN pref_depths ELSE within
            tsum == IF pref_temps # <<>> THEN SeqSum(pref_temps) ELSE surface_temp
            tn == IF pref_temps # <<>> THEN Len(pref_temps) ELSE 1
            best == FirstArgMin(candidates, surface_temp, season, wind_speed, cloud, tsum, tn)
        IN  IF tod_bias = "flach" THEN best - 500
            ELSE IF tod_bias = "tief" THEN best + 500
            ELSE best

\* tod_bias is "flach", "tief" or "none"
choose_best_depth(surface_temp, season, pref_depths, pref_temps, tod_bias, wind_speed, cloud) ==
    IF pref_depths = <<>> THEN 0
    ELSE
        LET layers == stratification_layers(surface_temp, season, wind_speed)
            limit == layers[1] + layers[2]
            within == SelectSeq(pref_depths, LAMBDA d : d <= limit)
            candidates == IF within = <<>> THEN pref_depths ELSE within
            tsum == IF pref_temps # <<>> THEN SeqSum(pref_temps) ELSE surface_temp
            tn == IF pref_temps # <<>> THEN Len(pref_temps) ELSE 1
            best == FirstArgMin(candidates, surface_temp, season, wind_speed, cloud, tsum, tn)
        IN  IF tod_bias = "flach" /\ best > SeqMin(pref_depths)
                THEN Max(SeqMin(pref_depths), best - 500)
            ELSE IF tod_bias = "tief" /\ best < SeqMax(pref_depths)
                THEN Min(SeqMax(pref_depths), best + 500)
            ELSE best

-----------------------------------------------------------------------------
(* Dynamic time windows *)

HourMs == 60 * 60 * 1000
DayMs == 24 * HourMs

\* light level 0..1000
light_modifier(cloud, wind, precip) ==
    LET cloud_eff == cloud + Min(wind, 10000) \div 50
        rain_eff == IF precip >= 200 THEN 150 ELSE 0
    IN  Max(0, 1000 - _clamp(cloud_eff + rain_eff, 0, 1000))

\* _dt(dt, hours) with the offset given in ms
_dt(dt, delta) == IF IsNone(dt) THEN Null ELSE Num(dt.v + delta)

\* buffers in ms: minutes * 60000 * factor/1000
DawnBuf(lm) == BUFFERS.Daemmerung * 60 * (2000 - lm)
DayBuf(lm) == BUFFERS.Tag * 60 * lm
NightBuf(lm) == BUFFERS.Nacht * 60 * (2000 - lm)

\* build_time_windows without the per-window test for a missing anchor
build_time_windows_unguarded(sunrise, sunset, prefs, cloud, wind, precip) ==
    IF IsNone(sunrise) /\ IsNone(sunset) THEN <<>>
    ELSE
        LET lm == light_modifier(cloud, wind, precip)
            sr == sunrise.v
            ss == sunset.v
        IN  [k \in Range(prefs) \cap {"Morgen", "Abend", "Tag", "Nacht"} |->
                CASE k = "Morgen" -> <<sr - DawnBuf(lm), sr + DawnBuf(lm)>>
                  [] k = "Abend" -> <<ss - DawnBuf(lm), ss + DawnBuf(lm)>>
                  [] k = "Tag" -> <<sr + DayBuf(lm), ss - DayBuf(lm)>>
                  [] k = "Nacht" -> <<ss + NightBuf(lm), sr + NightBuf(lm) + DayMs>>]

\* build_time_windows with the night window ending on the day it starts
build_time_windows_night_same_day(sunrise, sunset, prefs, cloud, wind, precip) ==
    LET w == build_time_windows_unguarded(sunrise, sunset, prefs, cloud, wind, precip)
        has == {k \in DOMAIN w :
                  \/ k = "Morgen" /\ ~IsNone(sunrise)
                  \/ k = "Abend" /\ ~IsNone(sunset)
                  \/ k \in {"Tag", "Nacht"} /\ ~IsNone(sunrise) /\ ~IsNone(sunset)}
    IN  [k \in has |-> IF k = "Nacht" THEN <<w[k][1], w[k][2] - DayMs>> ELSE w[k]]

\* sunrise, sunset: optional instants; prefs: sequence of day-part labels.
\* Result: function day-part -> <<start, end>> over the windows that were built.
build_time_windows(sunrise, sunset, prefs, cloud, wind, precip) ==
    IF IsNone(sunrise) /\ IsNone(sunset) THEN <<>>
    ELSE
        LET lm == light_modifier(cloud, wind, precip)
            dawn == DawnBuf(lm)
            daybuf == DayBuf(lm)
            nightb == NightBuf(lm)
            has == {k \in Range(prefs) \cap {"Morgen", "Abend", "Tag", "Nacht"} :
                      \/ k = "Morgen" /\ ~IsNone(sunrise)
                      \/ k = "Abend" /\ ~IsNone(sunset)
                      \/ k = "Tag" /\ ~IsNone(sunrise) /\ ~IsNone(sunset)
                      \/ k = "Nacht" /\ ~IsNone(sunrise) /\ ~IsNone(sunset)}
        IN  [k \in has |->
                CASE k = "Morgen" -> <<sunrise.v - dawn, sunrise.v + dawn>>
                  [] k = "Abend" -> <<sunset.v - dawn, sunset.v + dawn>>
                  [] k = "Tag" -> <<sunrise.v + daybuf, sunset.v - daybuf>>
                  [] k = "Nacht" -> <<sunset.v + nightb, sunrise.v + nightb + DayMs>>]

\* <<score in 1/1000, windows>>
score_time_of_day(now, sunrise, sunset, pref, cloud, wind, precip) ==
    LET wins == build_time_windows(sunrise, sunset, pref.Bevorzugte_Tageszeit,
                                   cloud, wind, precip)
        half == HourMs
        one == Weight("Tageszeitfenster") * Max(400, light_modifier(cloud, wind, precip))
        hit(k) == LET s == wins[k][1]
                      e == wins[k][2]
                  IN  \/ time_in_window(now, s, e)
                      \/ time_in_window(now, s - half, s)
                      \/ time_in_window(now, e, e + half)
    IN  <<one * Cardinality({k \in DOMAIN wins : hit(k)}), wins>>

\* strftime("%H:%M"): the clock time, without date and seconds
HHMM(t) == <<((t \div 60000) % 1440) \div 60, ((t \div 60000) % 1440) % 60>>

-----------------------------------------------------------------------------
(* Species preferences (fisch.json) *)

\* str.lower() on the labels that occur
Lower(s) ==
    CASE s = "N" -> "n" [] s = "NO" -> "no" [] s = "O" -> "o" [] s = "SO" -> "so"
      [] s = "S" -> "s" [] s = "SW" -> "sw" [] s = "W" -> "w" [] s = "NW" -> "nw"
      [] s = "Alle" -> "alle" [] s = "Halbmond" -> "halbmond"
      [] s = "Vollmond" -> "vollmond" [] s = "Neumond" -> "neumond"
      [] s = "Zunehmender Mond" -> "zunehmender mond"
      [] s = "Abnehmender Mond" -> "abnehmender mond"
      [] s = "Klar" -> "klar" [] s = "Dunstig" -> "dunstig" [] s = "Windig" -> "windig"
      [] s = "Leicht fallend" -> "leicht fallend"
      [] OTHER -> s

LowerAll(seq) == {Lower(seq[i]) : i \in 1..Len(seq)}

\* preferences.get(art, {}): every pref.get(key, default) of the engine then
\* yields its default
EmptyPref ==
    [Bevorzugte_Wassertemperatur |-> <<>>,
     Bevorzugte_Wassertiefe_Fruehling_Herbst |-> <<>>,
     Bevorzugte_Wassertiefe_Sommer |-> <<>>,
     Bevorzugte_Wassertiefe_Winter |-> <<>>,
     Bevorzugte_Tageszeit |-> <<>>,
     Bevorzugte_Windrichtung |-> <<>>,
     Bevorzugte_Mondphase |-> <<>>,
     Bevorzugte_Wetter |-> <<>>,
     Truebung |-> <<>>,
     Bevorzugter_Luftdrucktrend |-> <<>>,
     Regen |-> FALSE,
     Beste_Fangsaison |-> <<>>]

Hecht ==
    [EmptyPref EXCEPT
     !.Bevorzugte_Wassertemperatur = <<10000, 16000>>,
     !.Bevorzugte_Wassertiefe_Fruehling_Herbst = <<2000, 4000>>,
     !.Bevorzugte_Wassertiefe_Sommer = <<3000, 6000>>,
     !.Bevorzugte_Wassertiefe_Winter = <<5000>>,
     !.Bevorzugte_Tageszeit = <<"Morgen", "Abend">>,
     !.Bevorzugte_Windrichtung = <<"SW", "W">>,
     !.Bevorzugte_Mondphase = <<"Vollmond", "Halbmond">>,
     !.Bevorzugte_Wetter = <<"bewoelkt", "windig">>,
     !.Truebung = <<"leicht trueb", "klar">>,
     !.Bevorzugter_Luftdrucktrend = <<"Leicht fallend">>,
     !.Regen = TRUE,
     !.Beste_Fangsaison = <<9, 10, 11, 12>>]

Zander ==
    [EmptyPref EXCEPT
     !.Bevorzugte_Wassertemperatur = <<18000>>,
     !.Bevorzugte_Wassertiefe_Fruehling_Herbst = <<3000, 5000>>,
     !.Bevorzugte_Wassertiefe_Sommer = <<2000, 4000, 9000>>,
     !.Bevorzugte_Wassertiefe_Winter = <<8000>>,
     !.Bevorzugte_Tageszeit = <<"Nacht", "Abend">>,
     !.Bevorzugte_Windrichtung = <<"Alle">>,
     !.Bevorzugte_Mondphase = <<"Neumond">>,
     !.Bevorzugte_Wetter = <<"Klar">>,
     !.Truebung = <<"trueb">>,
     !.Bevorzugter_Luftdrucktrend = <<"steigend">>,
     !.Beste_Fangsaison = <<6, 7, 8>>]

Karpfen ==
    [EmptyPref EXCEPT
     !.Bevorzugte_Wassertemperatur = <<18000, 24000>>,
     !.Bevorzugte_Wassertiefe_Fruehling_Herbst = <<1000, 2000>>,
     !.Bevorzugte_Wassertiefe_Sommer = <<1000, 2000>>,
     !.Bevorzugte_Tageszeit = <<"Tag", "Morgen", "Abend", "Nacht">>,
     !.Bevorzugte_Windrichtung = <<"S">>,
     !.Bevorzugte_Mondphase = <<"Alle">>,
     !.Bevorzugte_Wetter = <<"Dunstig", "Windig">>,
     !.Truebung = <<"klar">>,
     !.Bevorzugter_Luftdrucktrend = <<"stabil", "fallend">>,
     !.Regen = TRUE,
     !.Beste_Fangsaison = <<1, 5, 6>>]

\* "Unbekannt" stands for a record whose species has no preference entry
Species == {"Hecht", "Zander", "Karpfen", "Unbekannt"}

preferences(art) ==
    CASE art = "Hecht" -> Hecht
      [] art = "Zander" -> Zander
      [] art = "Karpfen" -> Karpfen
      [] OTHER -> EmptyPref

-----------------------------------------------------------------------------
(* Combined temperature and depth scoring *)

NoParts ==
    [temp_score |-> 0, depth_score |-> 0, match_score |-> 0,
     temp_at_depth |-> Null, actual_depth |-> Null, match |-> FALSE,
     diff_t |-> Null, min_diff_d |-> Null]

\* TodBias with 'Nacht' as the only bias time
TodBias_night_only(now, cloud, wind, precip) ==
    LET w == build_time_windows(Num(now), Num(now), <<"Nacht">>, cloud, wind, precip)
    IN  IF \E k \in DOMAIN w : time_in_window(now, w[k][1], w[k][2])
        THEN "flach" ELSE "none"

\* always "flach" (see the windows built around now itself), else "none"
TodBias(now, cloud, wind, precip) ==
    LET w == build_time_windows(Num(now), Num(now), <<"Morgen", "Abend", "Nacht">>,
                                cloud, wind, precip)
    IN  IF \E k \in DOMAIN w : time_in_window(now, w[k][1], w[k][2])
        THEN "flach" ELSE "none"

PreferredDepths(pref, season) ==
    CASE season \in {"Fruehling", "Herbst"} -> pref.Bevorzugte_Wassertiefe_Fruehling_Herbst
      [] season = "Sommer" -> pref.Bevorzugte_Wassertiefe_Sommer
      [] season = "Winter" -> pref.Bevorzugte_Wassertiefe_Winter

\* the float() conversions of the entry raise TypeError on None
TempDepthRaises(entry) ==
    \/ get(entry.Windgeschwindigkeit, 0).tag = "null"
    \/ get(entry.cloudFraction, 0).tag = "null"
    \/ /\ ~IsNone(entry.Oberflaeche_temp)
       /\ IsNone(entry.actual_depth)
       /\ get(entry.precipIntensity, 0).tag = "null"

\* the depth the entry presets, else the depth chosen for the species
ActualDepth(entry, pref, season, now) ==
    IF ~IsNone(entry.actual_depth) THEN entry.actual_depth.v
    ELSE choose_best_depth(entry.Oberflaeche_temp.v, season,
            PreferredDepths(pref, season), pref.Bevorzugte_Wassertemperatur,
            TodBias(now, get(entry.cloudFraction, 0).v,
                    get(entry.Windgeschwindigkeit, 0).v,
                    get(entry.precipIntensity, 0).v),
            get(entry.Windgeschwindigkeit, 0).v, get(entry.cloudFraction, 0).v)

\* distance of the modelled temperature to the nearest preferred temperature
DiffT(temp_at_depth, surf_temp, prefs_t) ==
    IF prefs_t # <<>>
    THEN SeqMin([i \in 1..Len(prefs_t) |-> Abs(temp_at_depth - prefs_t[i])])
    ELSE Abs(temp_at_depth - surf_temp)

\* 0.25 * (max - min or 1.0), 2.0 without preferred temperatures
SigmaOf(prefs_t) ==
    IF prefs_t = <<>> THEN 2000
    ELSE IF SeqMax(prefs_t) = SeqMin(prefs_t) THEN 1000 \div 4
    ELSE (SeqMax(prefs_t) - SeqMin(prefs_t)) \div 4

TempScore(diff_t, prefs_t) == gauss_score(diff_t, Weight("Temperatur"), SigmaOf(prefs_t))

\* temp_score >= MIN_TEMP_SCORE = 0.3 * temp_weight
TempOk(temp_score) == temp_score >= 300 * Weight("Temperatur")

MinDiffD(actual_depth, preferred_depths) ==
    IF preferred_depths = <<>> THEN Null
    ELSE Num(SeqMin([i \in 1..Len(preferred_depths) |->
                        Abs(actual_depth - preferred_depths[i])]))

DepthScore(min_diff_d) ==
    IF IsNone(min_diff_d) THEN 0
    ELSE IF min_diff_d.v <= 500 THEN 1000 * Weight("Wassertiefe")
    ELSE IF min_diff_d.v <= 1000 THEN 500 * Weight("Wassertiefe")
    ELSE 0

MatchScore(match) == IF match THEN 1000 * Weight("TempTiefe_Match") ELSE 0

PartsOf(temp_score, depth_score, temp_at_depth, actual_depth, diff_t, min_diff_d) ==
    [temp_score |-> temp_score,
     depth_score |-> depth_score,
     match_score |-> MatchScore(TempOk(temp_score) /\ depth_score > 0),
     temp_at_depth |-> Num(temp_at_depth),
     actual_depth |-> Num(actual_depth),
     match |-> TempOk(temp_score) /\ depth_score > 0,
     diff_t |-> Num(diff_t),
     min_diff_d |-> min_diff_d]

PartsWithDiff(temp_at_depth, actual_depth, diff_t, min_diff_d, prefs_t) ==
    PartsOf(TempScore(diff_t, prefs_t), DepthScore(min_diff_d),
            temp_at_depth, actual_depth, diff_t, min_diff_d)

PartsAtTemp(temp_at_depth, actual_depth, surf_temp, preferred_depths, prefs_t) ==
    PartsWithDiff(temp_at_depth, actual_depth,
                  DiffT(temp_at_depth, surf_temp, prefs_t),
                  MinDiffD(actual_depth, preferred_depths), prefs_t)

PartsAtDepth(actual_depth, surf_temp, season, wind, cloud, preferred_depths, prefs_t) ==
    PartsAtTemp(temp_profile(actual_depth, surf_temp, season, wind, cloud),
                actual_depth, surf_temp, preferred_depths, prefs_t)

\* defined when ~TempDepthRaises(entry); now is the clock read inside
score_temp_and_depth(entry, pref, month, now) ==
    IF IsNone(entry.Oberflaeche_temp) THEN NoParts
    ELSE PartsAtDepth(ActualDepth(entry, pref, get_season(month), now),
                      entry.Oberflaeche_temp.v, get_season(month),
                      get(entry.Windgeschwindigkeit, 0).v, get(entry.cloudFraction, 0).v,
                      PreferredDepths(pref, get_season(month)),
                      pref.Bevorzugte_Wassertemperatur)

-----------------------------------------------------------------------------
(* The scoring loop body of compute_catch_probability_and_window *)

\* rec.get(key, default) for a label; "" stands for an absent key
getLabel(val, default) == IF val = "" THEN default ELSE val

\* Python `a or b` on optional numbers: None and 0.0 are falsy
OrElse(a, b) == IF IsNone(a) \/ a.v = 0 THEN b ELSE a

\* 2) wind direction
WindDirLabel(rec) ==
    IF ~IsNone(rec.windBearing) THEN grad_to_windrichtung(rec.windBearing)
    ELSE getLabel(rec.Windrichtung, "unbekannt")

WindDirMatches(rec, pref) ==
    LET pref_wind == LowerAll(pref.Bevorzugte_Windrichtung)
    IN  "alle" \in pref_wind \/ Lower(WindDirLabel(rec)) \in pref_wind

WindDirScore(rec, pref) ==
    IF WindDirMatches(rec, pref) THEN 1000 * Weight("Windrichtung") ELSE 0

\* 3) turbidity
TruebungScore(rec, pref) ==
    IF classify_truebung(rec.Truebung) \in Range(pref.Truebung)
    THEN 1000 * Weight("Truebung") ELSE 0

\* 4) wind speed: the value compared with 4
WindSpeedValue(rec) ==
    OrElse(rec.Windgeschwindigkeit_jetzt, get(rec.Windgeschwindigkeit, 0))

WindSpeedTip(rec, pref) ==
    "windig" \in Range(pref.Bevorzugte_Wetter) /\ WindSpeedValue(rec).v < 4000

\* `wind < 4` on None raises TypeError
WindSpeedRaises(rec, pref) ==
    "windig" \in Range(pref.Bevorzugte_Wetter) /\ IsNone(WindSpeedValue(rec))

\* the block appends a tip only; nothing is added to the score
WindSpeedScore(rec, pref) == 0

\* 5) moon phase
MoonMatches(rec, pref) ==
    LET mond_pref == LowerAll(pref.Bevorzugte_Mondphase)
    IN  \/ "alle" \in mond_pref
        \/ Lower(rec.Mondphase) \in mond_pref
        \/ "halbmond" \in mond_pref /\ rec.Mondphase \in HALF_MOONS

\* the block appends a tip only; nothing is added to the score
MoonScore(rec, pref) == 0

\* 6) season
PrevMonth(m) == IF m = 1 THEN 12 ELSE m - 1
NextMonth(m) == IF m = 12 THEN 1 ELSE m + 1

\* SeasonScore with the neighbouring months taken without wraparound
SeasonScore_no_wrap(pref, month) ==
    IF month \in Range(pref.Beste_Fangsaison) THEN 1000 * Weight("Saison")
    ELSE IF month - 1 \in Range(pref.Beste_Fangsaison)
            \/ month + 1 \in Range(pref.Beste_Fangsaison)
         THEN 500 * Weight("Saison")
    ELSE 0

SeasonScore(pref, month) ==
    LET saison_monate == Range(pref.Beste_Fangsaison)
    IN  IF month \in saison_monate THEN 1000 * Weight("Saison")
        ELSE IF PrevMonth(month) \in saison_monate \/ NextMonth(month) \in saison_monate
             THEN 500 * Weight("Saison")
        ELSE 0

\* 7) cloud cover
IsNight(now, sunrise, sunset) ==
    ~IsNone(sunrise) /\ ~IsNone(sunset) /\ (now < sunrise.v \/ now > sunset.v)

MappedWeather(cloud_pref) ==
    UNION {LET lw_l == Lower(cloud_pref[i])
           IN  IF lw_l = "klar" THEN {"klar", "fast klar"}
               ELSE IF lw_l \in {"dunstig", "neblig"} THEN {"wechselhaft"}
               ELSE {lw_l} : i \in 1..Len(cloud_pref)}

CloudMatches(rec, pref) ==
    classify_clouds(get(rec.cloudFraction, 0)) \in MappedWeather(pref.Bevorzugte_Wetter)

CloudScore(rec, pref, is_night) ==
    IF ~is_night /\ CloudMatches(rec, pref) THEN 1000 * Weight("Bewoelkung") ELSE 0

\* 8) rain bonus
RainBonus(rec, pref) ==
    IF classify_precip(get(rec.precipIntensity, 0)) = "regen" /\ pref.Regen
    THEN 1000 * Weight("Regen_Bonus") ELSE 0

\* `prec > 5` on None raises TypeError
RainRaises(rec) == get(rec.precipIntensity, 0).tag = "null"

HeavyRain(rec) == get(rec.precipIntensity, 0).v > 5000

\* 9) pressure trend
TrendMatches(rec, pref) ==
    Lower(getLabel(rec.Luftdruck_trend, "unbekannt")) \in
        {TrendMapped(Lower(pref.Bevorzugter_Luftdrucktrend[i])) :
            i \in 1..Len(pref.Bevorzugter_Luftdrucktrend)}

TrendScore(rec, pref) ==
    IF TrendMatches(rec, pref) THEN 1000 * Weight("Luftdruck_trend") ELSE 0

\* FinalProb with the floor applied to a score of 0 as well
FinalProb_floor_always(score, heavy_rain) ==
    LET floored == Max(10, round_to_next_five(score * 100, total_weight * 1000))
    IN  <<round_to_next_five(score * 100, total_weight * 1000), floored,
          IF heavy_rain THEN Max(0, floored - Weight("Regen_Malus")) ELSE floored>>

\* FinalProb with the rain malus subtracted before the floor at 10
FinalProb_malus_first(score, heavy_rain) ==
    LET raw_prob == round_to_next_five(score * 100, total_weight * 1000)
        reduced == IF heavy_rain THEN raw_prob - Weight("Regen_Malus") ELSE raw_prob
        floored == IF score > 0 THEN Max(10, raw_prob) ELSE 0
    IN  <<raw_prob, floored, IF score > 0 THEN Max(10, reduced) ELSE 0>>

\* 11) final percentage: <<raw_prob, probability before the malus, final_prob>>
FinalProb(score, heavy_rain) ==
    LET raw_prob == round_to_next_five(score * 100, total_weight * 1000)
        floored == IF score > 0 THEN Max(10, raw_prob) ELSE 0
    IN  <<raw_prob, floored,
          IF heavy_rain THEN Max(0, floored - Weight("Regen_Malus")) ELSE floored>>

\* formatting None with :.1f raises TypeError in the tip of a record without match
TipFormatRaises(parts) == ~parts.match /\ IsNone(parts.actual_depth)

\* whether the loop body raises for this record
RecordRaises(rec, pref, month, now) ==
    \/ TempDepthRaises(rec)
    \/ TipFormatRaises(score_temp_and_depth(rec, pref, month, now))
    \/ WindSpeedRaises(rec, pref)
    \/ RainRaises(rec)

\* what each factor adds to score (1/1000 points), in the order of the loop body;
\* the temperature and depth scores are computed but not added
Added(rec, pref, parts, is_night, ts_score, month) ==
    [Temperatur |-> 0,
     Wassertiefe |-> 0,
     TempTiefe_Match |-> parts.match_score,
     Windrichtung |-> WindDirScore(rec, pref),
     Truebung |-> TruebungScore(rec, pref),
     Windig |-> WindSpeedScore(rec, pref),
     Mondphase |-> MoonScore(rec, pref),
     Saison |-> SeasonScore(pref, month),
     Bewoelkung |-> CloudScore(rec, pref, is_night),
     Regen_Bonus |-> RainBonus(rec, pref),
     Luftdruck_trend |-> TrendScore(rec, pref),
     Tageszeitfenster |-> ts_score]

\* Improve with the cloud-cover block run at night as well
Improve_clouds_at_night(rec, pref, parts, is_night, ts_score, month) ==
    {k \in {"Tiefe_Temperatur", "Windrichtung", "Truebung",
            "Windgeschwindigkeit_kmh", "Mondphase", "Saison_Monat",
            "Bewoelkung", "Regen_mm_h", "Luftdrucktrend", "Tageszeit"} :
        \/ k = "Tiefe_Temperatur" /\ ~parts.match
        \/ k = "Windrichtung" /\ ~WindDirMatches(rec, pref)
        \/ k = "Truebung" /\ TruebungScore(rec, pref) = 0
        \/ k = "Windgeschwindigkeit_kmh" /\ WindSpeedTip(rec, pref)
        \/ k = "Mondphase" /\ ~MoonMatches(rec, pref)
        \/ k = "Saison_Monat" /\ SeasonScore(pref, month) = 0
        \/ k = "Bewoelkung" /\ ~CloudMatches(rec, pref)
        \/ k = "Regen_mm_h" /\ HeavyRain(rec)
        \/ k = "Luftdrucktrend" /\ ~TrendMatches(rec, pref)
        \/ k = "Tageszeit" /\ ts_score = 0}

\* the keys of the 'Verbesserungen' dict; one tip string goes with each
Improve(rec, pref, parts, is_night, ts_score, month) ==
    {k \in {"Tiefe_Temperatur", "Windrichtung", "Truebung",
            "Windgeschwindigkeit_kmh", "Mondphase", "Saison_Monat",
            "Bewoelkung", "Regen_mm_h", "Luftdrucktrend", "Tageszeit"} :
        \/ k = "Tiefe_Temperatur" /\ ~parts.match
        \/ k = "Windrichtung" /\ ~WindDirMatches(rec, pref)
        \/ k = "Truebung" /\ TruebungScore(rec, pref) = 0
        \/ k = "Windgeschwindigkeit_kmh" /\ WindSpeedTip(rec, pref)
        \/ k = "Mondphase" /\ ~MoonMatches(rec, pref)
        \/ k = "Saison_Monat" /\ SeasonScore(pref, month) = 0
        \/ k = "Bewoelkung" /\ ~is_night /\ ~CloudMatches(rec, pref)
        \/ k = "Regen_mm_h" /\ HeavyRain(rec)
        \/ k = "Luftdrucktrend" /\ ~TrendMatches(rec, pref)
        \/ k = "Tageszeit" /\ ts_score = 0}

\* the blocks of the loop body in their order, by the key each writes to improve
TipOrder ==
    <<"Tiefe_Temperatur", "Windrichtung", "Truebung", "Windgeschwindigkeit_kmh",
      "Mondphase", "Saison_Monat", "Bewoelkung", "Regen_mm_h", "Luftdrucktrend",
      "Tageszeit">>

\* the tip a block appends to tipps_txt together with its improve entry
\* (the current values that are formatted into the text are left out)
TipText(k) ==
    CASE k = "Tiefe_Temperatur" -> "Tiefe/Temp passt nicht"
      [] k = "Windrichtung" -> "Windrichtung unguenstig"
      [] k = "Truebung" -> "Truebung suboptimal"
      [] k = "Windgeschwindigkeit_kmh" -> "Mehr Wind"
      [] k = "Mondphase" -> "Mondphase unguenstig"
      [] k = "Saison_Monat" -> "Nicht die beste Saison"
      [] k = "Bewoelkung" -> "Wetterlage unguenstig"
      [] k = "Regen_mm_h" -> "Zu starker Regen"
      [] k = "Luftdrucktrend" -> "Luftdrucktrend nicht ideal"
      [] k = "Tageszeit" -> "Unguenstige Tageszeit"

\* tipps_txt: the tips of the blocks that wrote an improve entry, in block order
TippsTxt(improve) ==
    LET keys == SelectSeq(TipOrder, LAMBDA k : k \in improve)
    IN  [i \in 1..Len(keys) |-> TipText(keys[i])]

\* rec["Tipps"], as the list of the joined parts
Tipps(improve) ==
    IF TippsTxt(improve) # <<>> THEN TippsTxt(improve)
    ELSE <<"Alles optimal - Rute raus!">>

\* the enriched record; rec holds the input fields, score / added / parts / windows
\* record the locals of the loop body
ResultRecord(rec, parts, added, improve, wins, score, prob) ==
    [rec |-> rec,
     parts |-> parts,
     added |-> added,
     score |-> score,
     raw_prob |-> prob[1],
     floored_prob |-> prob[2],
     Errechnete_Wassertemperatur |-> parts.temp_at_depth,
     Errechnete_Wassertiefe |-> parts.actual_depth,
     TempTiefe_Match |-> parts.match,
     Windrichtung |-> WindDirLabel(rec),
     Truebung |-> classify_truebung(rec.Truebung),
     windows |-> wins,
     Bestes_Fangfenster |-> [k \in DOMAIN wins |-> <<HHMM(wins[k][1]), HHMM(wins[k][2])>>],
     Fangwahrscheinlichkeit |-> prob[3],
     Tipps |-> Tipps(improve),
     Verbesserungen |-> improve]

WithScore(rec, parts, added, improve, wins, score) ==
    ResultRecord(rec, parts, added, improve, wins, score, FinalProb(score, HeavyRain(rec)))

WithAdded(rec, parts, added, improve, wins) ==
    WithScore(rec, parts, added, improve, wins, SumOver(added, DOMAIN added))

Assemble(rec, pref, parts, is_night, tod, month) ==
    WithAdded(rec, parts,
              Added(rec, pref, parts, is_night, tod[1], month),
              Improve(rec, pref, parts, is_night, tod[1], month),
              tod[2])

\* the record appended to results, for a record on which the body does not raise
ScoredRecord(rec, now, month, sunrise, sunset) ==
    Assemble(rec, preferences(rec.Art),
             score_temp_and_depth(rec, preferences(rec.Art), month, now),
             IsNight(now, sunrise, sunset),
             score_time_of_day(now, sunrise, sunset, preferences(rec.Art),
                               get(rec.cloudFraction, 0).v,
                               get(rec.Windgeschwindigkeit, 0).v,
                               get(rec.precipIntensity, 0).v),
             month)

-----------------------------------------------------------------------------
(* Inputs *)

MaxBatch == 2

BaseRec(art) ==
    [Art |-> art,
     Oberflaeche_temp |-> Num(18000),
     Windgeschwindigkeit |-> Num(2000),
     Windgeschwindigkeit_jetzt |-> Absent,
     cloudFraction |-> Num(100),
     precipIntensity |-> Num(0),
     windBearing |-> Num(180),
     Windrichtung |-> "",
     Truebung |-> "klar",
     Mondphase |-> "Vollmond",
     Luftdruck_trend |-> "fallend",
     Luftdruck |-> Absent,
     actual_depth |-> Absent]

\* complete records: every weather field is a number
CompleteRecords ==
    {[BaseRec(art) EXCEPT !.Oberflaeche_temp = Num(t), !.Windgeschwindigkeit = Num(w),
                          !.cloudFraction = Num(c), !.precipIntensity = Num(p),
                          !.Mondphase = m] :
        art \in Species, t \in {6000, 18000}, w \in {2000, 6000}, c \in {100, 800},
        p \in {0, 1000, 6000}, m \in {"Vollmond", "Zunehmender Mond"}}

\* records that differ from the base record in one respect
VariantRecords ==
    UNION {{[BaseRec(art) EXCEPT !.Oberflaeche_temp = Null],
            [BaseRec(art) EXCEPT !.Windgeschwindigkeit = Null],
            [BaseRec(art) EXCEPT !.Windgeschwindigkeit = Absent],
            [BaseRec(art) EXCEPT !.Windgeschwindigkeit = Num(9000)],
            [BaseRec(art) EXCEPT !.cloudFraction = Null],
            [BaseRec(art) EXCEPT !.cloudFraction = Absent],
            [BaseRec(art) EXCEPT !.cloudFraction = Num(350)],
            [BaseRec(art) EXCEPT !.precipIntensity = Null],
            [BaseRec(art) EXCEPT !.precipIntensity = Absent],
            [BaseRec(art) EXCEPT !.windBearing = Null, !.Windrichtung = "W"],
            [BaseRec(art) EXCEPT !.windBearing = Absent],
            [BaseRec(art) EXCEPT !.windBearing = Num(250)],
            [BaseRec(art) EXCEPT !.Truebung = "stark trueb"],
            [BaseRec(art) EXCEPT !.Mondphase = "Neumond"],
            [BaseRec(art) EXCEPT !.Luftdruck_trend = "steigend"],
            [BaseRec(art) EXCEPT !.Luftdruck_trend = "stagnierend"]} : art \in Species}

AllRecords == CompleteRecords \cup VariantRecords

\* the records batches of more than one record are made of
BatchRecords ==
    {BaseRec("Hecht"),
     BaseRec("Unbekannt"),
     [BaseRec("Zander") EXCEPT !.precipIntensity = Num(6000), !.cloudFraction = Num(800)],
     [BaseRec("Karpfen") EXCEPT !.Oberflaeche_temp = Null],
     [BaseRec("Hecht") EXCEPT !.Windgeschwindigkeit = Null],
     [BaseRec("Zander") EXCEPT !.precipIntensity = Null],
     [BaseRec("Karpfen") EXCEPT !.cloudFraction = Null],
     [BaseRec("Karpfen") EXCEPT !.Windgeschwindigkeit = Absent,
                                !.cloudFraction = Absent, !.precipIntensity = Absent],
     [BaseRec("Hecht") EXCEPT !.Luftdruck_trend = "steigend"],
     [BaseRec("Karpfen") EXCEPT !.Windgeschwindigkeit = Num(6000)]}

RECURSIVE SeqsOfLen(_, _)
SeqsOfLen(S, n) ==
    IF n = 0 THEN {<<>>}
    ELSE {Append(q, x) : q \in SeqsOfLen(S, n - 1), x \in S}

Batches ==
    {<<>>} \cup {<<r>> : r \in AllRecords}
           \cup UNION {SeqsOfLen(BatchRecords, n) : n \in 2..MaxBatch}

Clock(h, m) == h * HourMs + m * 60000

\* sun anchors <<sunrise, sunset>>
SunAnchors ==
    {<<Null, Null>>,
     <<Null, Num(Clock(20, 0))>>,
     <<Num(Clock(6, 0)), Null>>,
     <<Num(Clock(6, 0)), Num(Clock(20, 0))>>,
     <<Num(Clock(11, 40)), Num(Clock(12, 20))>>}

Nows == {Clock(2, 0), Clock(5, 30), Clock(12, 0), Clock(21, 0)}

Months == {1, 5, 7, 12}

-----------------------------------------------------------------------------
(* State machine: one call of compute_catch_probability_and_window *)

VARIABLES
    pc,              \* "scoring" (in the loop), "returned", "raised"
    now,             \* datetime.now(_TZ) of the call
    month,           \* today.month, today = (sunrise or now).date()
    sunrise, sunset, \* loc.get("sunrise"), loc.get("sunset")
    sensor_records,  \* the batch handed in
    results,         \* the result list built so far
    call,            \* a call of a helper function: its name and arguments
    ret,             \* <<>> while the call is pending, <<value>> once it returned
    store,           \* pressure_prev.json: species -> pressure (hPa)
    sun_env,         \* what the environment lets main() learn about the sun
    runs,            \* the finished cycles of main(): input batch and results
    wall,            \* the real time: ms since midnight of the day the process started
    base_now,        \* forecast_morgen._BASE_NOW
    sb_datetime,     \* the class bound to the name datetime in sensor_berechnung
    phase,           \* the entry point the publish loop is in: "live" or "forecast"
    loop_interval    \* LOOP_INTERVAL in ms

engine_vars == <<pc, now, month, sunrise, sunset, sensor_records, results>>
fn_vars == <<call, ret>>
main_vars == <<store, sun_env, runs>>
loop_vars == <<wall, base_now, sb_datetime, phase, loop_interval>>
vars == <<engine_vars, fn_vars, main_vars, loop_vars>>

\* main() is not running
NoMain == store = <<>> /\ sun_env = "none" /\ runs = <<>>

\* the publish loop of mqtt.py is not running, forecast_morgen is not imported
NoLoop ==
    /\ wall = 0 /\ base_now = 0 /\ sb_datetime = "datetime"
    /\ phase = "none" /\ loop_interval = 0

\* no helper call is under way
NoCall == call = [fn |-> "none", args |-> <<>>] /\ ret = <<>>

Init ==
    /\ pc = "scoring"
    /\ now \in Nows
    /\ month \in Months
    /\ \E a \in SunAnchors : sunrise = a[1] /\ sunset = a[2]
    /\ sensor_records \in Batches
    /\ results = <<>>
    /\ NoCall
    /\ NoMain
    /\ NoLoop

\* one iteration of the loop over sensor_records
ScoreRecord ==
    /\ pc = "scoring"
    /\ Len(results) < Len(sensor_records)
    /\ LET rec == sensor_records[Len(results) + 1]
       IN  IF RecordRaises(rec, preferences(rec.Art), month, now)
           THEN /\ pc' = "raised"
                /\ UNCHANGED results
           ELSE /\ results' = Append(results, ScoredRecord(rec, now, month, sunrise, sunset))
                /\ UNCHANGED pc
    /\ UNCHANGED <<now, month, sunrise, sunset, sensor_records>>
    /\ UNCHANGED <<fn_vars, main_vars, loop_vars>>

\* return results
Return ==
    /\ pc = "scoring"
    /\ Len(results) = Len(sensor_records)
    /\ pc' = "returned"
    /\ UNCHANGED <<now, month, sunrise, sunset, sensor_records, results>>
    /\ UNCHANGED <<fn_vars, main_vars, loop_vars>>

Next == ScoreRecord \/ Return

Spec == Init /\ [][Next]_vars

-----------------------------------------------------------------------------
(* Weight and buffer configuration (weights.json) *)

\* what open() and json.load() make of the document; for a JSON object, what is
\* stored under 'Bevorzugte_Gewichtungen' and 'Zeitfenster_Puffer'
ConfigDocs ==
    {[kind |-> k, weights |-> "absent", buffers |-> "absent"] :
        k \in {"missing", "invalid", "array"}}
    \cup {[kind |-> "object", weights |-> w, buffers |-> b] :
              w \in {"absent", "mapping", "list"}, b \in {"absent", "mapping", "list"}}

\* a dict as the set of its items
DefaultWeights == [type |-> "dict", items |-> {<<k, WEIGHTS[k]>> : k \in WeightKeys}]
DefaultBuffers ==
    [type |-> "dict",
     items |-> {<<"Daemmerung", BUFFERS.Daemmerung>>, <<"Tag", BUFFERS.Tag>>,
                <<"Nacht", BUFFERS.Nacht>>}]
EmptyDict == [type |-> "dict", items |-> {}]

\* the tables of a document that has the sections as mappings
FileWeights == [type |-> "dict", items |-> {<<"Temperatur", 20>>, <<"Saison", 8>>}]
FileBuffers == [type |-> "dict", items |-> {<<"Daemmerung", 60>>, <<"Tag", 20>>}]
FileList == [type |-> "list", items |-> {}]

load_weights(doc) ==
    IF doc.kind \in {"missing", "invalid", "array"} THEN DefaultWeights
    ELSE IF doc.weights = "absent" THEN EmptyDict
    ELSE IF doc.weights = "mapping" THEN FileWeights
    ELSE DefaultWeights

load_buffers(doc) ==
    IF doc.kind \in {"missing", "invalid", "array"} THEN DefaultBuffers
    ELSE IF doc.buffers = "absent" THEN EmptyDict
    ELSE IF doc.buffers = "mapping" THEN FileBuffers
    ELSE FileList

-----------------------------------------------------------------------------
(* State machine: single calls of the helper functions *)

Depths == {0, 250, 500, 1000, 2000, 3000, 5000, 8000, 12000, 20000}
SurfaceTemps == {-1000, 0, 3000, 6000, 8000, 12000, 18000, 25000}
Seasons == {"Fruehling", "Sommer", "Herbst", "Winter"}
WindSpeeds == {0, 3000, 10000}
Bearings == {0, 22, 23, 44, 45, 90, 180, 270, 337, 338, 359, 360}

\* preferred depths and temperatures of a species
PrefDepthLists ==
    {<<>>, <<1000, 2000>>, <<3000, 6000>>, <<2000, 4000, 9000>>, <<5000>>, <<2200, 2000>>}
PrefTempLists == {<<>>, <<10000, 16000>>, <<18000>>}

\* lists of requested day-parts
RequestedParts ==
    {<<>>, <<"Morgen", "Abend">>, <<"Nacht", "Abend">>,
     <<"Tag", "Morgen", "Abend", "Nacht">>, <<"Tag", "Mittag">>}

\* instants on the day of the sunset and on the day after it
Instants == {Clock(h, 0) + d * DayMs : h \in {2, 6, 12, 20, 23}, d \in {0, 1}}

Calls ==
    {[fn |-> "temp_profile", args |-> <<d, t, s, w, 0>>] :
        d \in Depths, t \in SurfaceTemps, s \in Seasons, w \in WindSpeeds}
    \cup {[fn |-> "grad_to_windrichtung", args |-> <<g>>] :
              g \in {Num(b) : b \in Bearings} \cup {Null}}
    \cup {[fn |-> f, args |-> <<doc>>] :
              f \in {"load_weights", "load_buffers"}, doc \in ConfigDocs}
    \cup {[fn |-> "time_in_window", args |-> <<t, a, b>>] :
              t \in Instants, a \in Instants, b \in Instants}
    \cup {[fn |-> "choose_best_depth", args |-> <<t, sn, pd, pt, b, w, 0>>] :
              t \in {6000, 18000, 25000}, sn \in Seasons, pd \in PrefDepthLists,
              pt \in PrefTempLists, b \in {"flach", "tief", "none"}, w \in {0, 3000}}
    \cup {[fn |-> "build_time_windows", args |-> <<sr, ss, parts, c, w, p>>] :
              sr \in {Null, Num(Clock(6, 0))}, ss \in {Null, Num(Clock(20, 0))},
              parts \in RequestedParts, c \in {0, 100, 800, 1200},
              w \in {0, 2000, 12000}, p \in {0, 1000}}

\* the engine is not running
EngineIdle ==
    /\ pc = "idle" /\ now = 0 /\ month = 1
    /\ sunrise = Null /\ sunset = Null
    /\ sensor_records = <<>> /\ results = <<>>

InitFn ==
    /\ EngineIdle
    /\ call \in Calls
    /\ ret = <<>>
    /\ NoMain
    /\ NoLoop

Call_temp_profile ==
    /\ call.fn = "temp_profile" /\ ret = <<>>
    /\ ret' = <<temp_profile(call.args[1], call.args[2], call.args[3],
                              call.args[4], call.args[5])>>
    /\ UNCHANGED <<engine_vars, call, main_vars, loop_vars>>

Call_grad_to_windrichtung ==
    /\ call.fn = "grad_to_windrichtung" /\ ret = <<>>
    /\ ret' = <<grad_to_windrichtung(call.args[1])>>
    /\ UNCHANGED <<engine_vars, call, main_vars, loop_vars>>

Call_load_weights ==
    /\ call.fn = "load_weights" /\ ret = <<>>
    /\ ret' = <<load_weights(call.args[1])>>
    /\ UNCHANGED <<engine_vars, call, main_vars, loop_vars>>

Call_load_buffers ==
    /\ call.fn = "load_buffers" /\ ret = <<>>
    /\ ret' = <<load_buffers(call.args[1])>>
    /\ UNCHANGED <<engine_vars, call, main_vars, loop_vars>>

Call_time_in_window ==
    /\ call.fn = "time_in_window" /\ ret = <<>>
    /\ ret' = <<time_in_window(call.args[1], call.args[2], call.args[3])>>
    /\ UNCHANGED <<engine_vars, call, main_vars, loop_vars>>

Call_build_time_windows ==
    /\ call.fn = "build_time_windows" /\ ret = <<>>
    /\ ret' = <<build_time_windows(call.args[1], call.args[2], call.args[3],
                                    call.args[4], call.args[5], call.args[6])>>
    /\ UNCHANGED <<engine_vars, call, main_vars, loop_vars>>

Call_choose_best_depth ==
    /\ call.fn = "choose_best_depth" /\ ret = <<>>
    /\ ret' = <<choose_best_depth(call.args[1], call.args[2], call.args[3], call.args[4],
                                   call.args[5], call.args[6], call.args[7])>>
    /\ UNCHANGED <<engine_vars, call, main_vars, loop_vars>>

NextFn ==
    \/ Call_temp_profile
    \/ Call_grad_to_windrichtung
    \/ Call_load_weights
    \/ Call_load_buffers
    \/ Call_time_in_window
    \/ Call_build_time_windows
    \/ Call_choose_best_depth

SpecFn == InitFn /\ [][NextFn]_vars

-----------------------------------------------------------------------------
(* Pressure trend, sun times and the cycles of main() *)

\* e.get("Luftdruck") or e.get("ermittelter Luftdruck"), then float(): None when
\* there is no number; the second key is absent in the records of basic_sensor
Curr(e) ==
    IF e.Luftdruck.tag = "num" /\ e.Luftdruck.v # 0 THEN e.Luftdruck ELSE Null

\* float(prev.get(art)), None when the species is not in the store
StoreGet(prev, art) == IF art \in DOMAIN prev THEN Num(prev[art]) ELSE Null

\* TrendOf with the two directions exchanged
TrendOf_exchanged(curr, old) ==
    IF IsNone(curr) \/ IsNone(old) THEN "unbekannt"
    ELSE IF curr.v > old.v THEN "fallend"
    ELSE IF curr.v < old.v THEN "steigend"
    ELSE "stagnierend"

TrendOf(curr, old) ==
    IF IsNone(curr) \/ IsNone(old) THEN "unbekannt"
    ELSE IF curr.v > old.v THEN "steigend"
    ELSE IF curr.v < old.v THEN "fallend"
    ELSE "stagnierend"

\* newp: the last parsable pressure of each species of the batch
NewPressures(data_list) ==
    [a \in {data_list[i].Art : i \in {j \in 1..Len(data_list) : ~IsNone(Curr(data_list[j]))}} |->
        Curr(data_list[CHOOSE i \in 1..Len(data_list) :
                /\ data_list[i].Art = a /\ ~IsNone(Curr(data_list[i]))
                /\ \A j \in (i + 1)..Len(data_list) :
                      data_list[j].Art # a \/ IsNone(Curr(data_list[j]))]).v]

\* <<data_list with 'Luftdruck_trend' set, the new content of the store>>
clean_and_calculate(data_list, prev) ==
    <<[i \in 1..Len(data_list) |->
          [data_list[i] EXCEPT !.Luftdruck_trend =
              TrendOf(Curr(data_list[i]), StoreGet(prev, data_list[i].Art))]],
      NewPressures(data_list)>>

\* what main() can learn about the sun: LATITUDE or LONGITUDE unset; both
\* anchors computed; one of the two computations fails inside get_sun_times;
\* get_sun_times itself raises
SunEnvs == {"no_coords", "ok", "sunrise_fails", "sunset_fails", "raises"}

\* the anchors get_sun_times returns when it returns
get_sun_times(env) ==
    <<IF env = "sunrise_fails" THEN Null ELSE Num(Clock(6, 0)),
      IF env = "sunset_fails" THEN Null ELSE Num(Clock(20, 0))>>

\* the anchors main() hands to compute_catch_probability_and_window
MainAnchors(env) ==
    IF env = "no_coords" THEN <<Null, Null>>
    ELSE IF env = "raises" THEN <<Num(Clock(5, 0)), Num(Clock(21, 0))>>
    ELSE get_sun_times(env)

MaxCycles == 2

\* a record as load_sensor_data delivers it: with a pressure, without a trend
MainRec(art, p) == [BaseRec(art) EXCEPT !.Luftdruck = p, !.Luftdruck_trend = ""]

MainBatches ==
    {<<MainRec("Karpfen", p)>> : p \in {Num(1010), Num(1013), Null}}
    \cup {<<MainRec("Hecht", Num(1013))>>}
    \cup {<<MainRec("Karpfen", p), MainRec("Hecht", Num(1013))>> :
              p \in {Num(1010), Num(1013), Null}}

\* contents of the store before the first cycle; <<>> is the missing file
Stores ==
    {<<>>, [Karpfen |-> 1010], [Karpfen |-> 1013, Hecht |-> 1000]}

InitMain ==
    /\ pc = "load"
    /\ now \in {Clock(12, 0), Clock(21, 0)}
    /\ month = 5
    /\ sunrise = Null /\ sunset = Null
    /\ sensor_records = <<>> /\ results = <<>>
    /\ NoCall
    /\ store \in Stores
    /\ sun_env \in SunEnvs
    /\ runs = <<>>
    /\ NoLoop

\* raw = load_sensor_data()
LoadSensorData ==
    /\ pc = "load"
    /\ sensor_records' \in MainBatches
    /\ results' = <<>>
    /\ sunrise' = Null /\ sunset' = Null
    /\ pc' = "clean"
    /\ UNCHANGED <<now, month, fn_vars, main_vars, loop_vars>>

\* cleaned = clean_and_calculate(raw)
Clean ==
    /\ pc = "clean"
    /\ sensor_records' = clean_and_calculate(sensor_records, store)[1]
    /\ store' = clean_and_calculate(sensor_records, store)[2]
    /\ pc' = "sun"
    /\ UNCHANGED <<now, month, sunrise, sunset, results, fn_vars, sun_env, runs, loop_vars>>

\* the sun anchors of this cycle; compute_catch_probability_and_window starts
SunTimes ==
    /\ pc = "sun"
    /\ sunrise' = MainAnchors(sun_env)[1]
    /\ sunset' = MainAnchors(sun_env)[2]
    /\ pc' = "scoring"
    /\ UNCHANGED <<now, month, sensor_records, results, fn_vars, main_vars, loop_vars>>

\* main() has returned; the caller starts the next cycle
NextCycle ==
    /\ pc = "returned"
    /\ Len(runs) < MaxCycles
    /\ runs' = Append(runs, [records |-> sensor_records, results |-> results,
                             sunrise |-> sunrise, sunset |-> sunset])
    /\ pc' = IF Len(runs) + 1 < MaxCycles THEN "load" ELSE "done"
    /\ UNCHANGED <<now, month, sunrise, sunset, sensor_records, results,
                   fn_vars, store, sun_env, loop_vars>>

NextMain == LoadSensorData \/ Clean \/ SunTimes \/ ScoreRecord \/ Return \/ NextCycle

SpecMain == InitMain /\ [][NextMain]_vars

-----------------------------------------------------------------------------
(* The publish loop of mqtt.py: a live cycle, a forecast cycle, a pause *)

\* sb.datetime.now(_TZ): the frozen instant once forecast_morgen is imported
DatetimeNow(cls, t, base) == IF cls = "FrozenDateTime" THEN base ELSE t

\* 00:00 of the calendar day of t, and of the day after it
Midnight(t) == (t \div DayMs) * DayMs
Tomorrow(t) == Midnight(t) + DayMs

\* the latest daily event at clock time c that lies before t
PrevEvent(t, c) == IF Midnight(t) + c < t THEN Midnight(t) + c ELSE Midnight(t) + c - DayMs

\* get_sun_times at the instant t its clock reads, for a sun that rises at 06:00
\* and sets at 20:00: the last sunrise; the last sunset, or the next one when
\* the last is more than 8 hours ago
get_sun_times_at(env, t) ==
    <<IF env = "sunrise_fails" THEN Null ELSE Num(PrevEvent(t, Clock(6, 0))),
      IF env = "sunset_fails" THEN Null
      ELSE IF t - PrevEvent(t, Clock(20, 0)) > 8 * HourMs
           THEN Num(PrevEvent(t, Clock(20, 0)) + DayMs)
      ELSE Num(PrevEvent(t, Clock(20, 0)))>>

\* the anchors of a cycle of the loop, LATITUDE and LONGITUDE being set; t is
\* what the clock of sensor_berechnung reads.  On an exception main() falls back
\* to 05:00 and 21:00 of the date of t, forecast_for_tomorrow to those of _BASE_NOW.
LoopAnchors(kind, env, t, base) ==
    IF env = "raises"
    THEN IF kind = "live"
         THEN <<Num(Midnight(t) + Clock(5, 0)), Num(Midnight(t) + Clock(21, 0))>>
         ELSE <<Num(Midnight(base) + Clock(5, 0)), Num(Midnight(base) + Clock(21, 0))>>
    ELSE get_sun_times_at(env, t)

MaxIterations == 2

\* when the process starts, and the pause between two iterations
StartTimes == {Clock(12, 0), Clock(23, 55)}
LoopIntervals == {10 * 60000, 12 * HourMs}

\* what load_sensor_data delivers in a cycle
LiveBatches ==
    {<<MainRec("Karpfen", Num(1010))>>,
     <<MainRec("Karpfen", Num(1013)), MainRec("Hecht", Num(1013))>>}

\* a record built from one forecast hour: no turbidity, moon phase or trend
ForecastRec(art, p) ==
    [BaseRec(art) EXCEPT !.Luftdruck = Num(p), !.Luftdruck_trend = "",
                         !.Truebung = "", !.Mondphase = ""]

\* two forecast hours, one record per species of fisch.json for each
ForecastHours ==
    <<ForecastRec("Hecht", 1005), ForecastRec("Zander", 1005), ForecastRec("Karpfen", 1005),
      ForecastRec("Hecht", 1020), ForecastRec("Zander", 1020), ForecastRec("Karpfen", 1020)>>

\* raw of forecast_for_tomorrow: the forecast hours, or the local sensor data
\* when the request fails
ForecastBatches == {ForecastHours} \cup LiveBatches

InitLoop ==
    /\ pc = "import"
    /\ now = 0
    /\ month = 5
    /\ sunrise = Null /\ sunset = Null
    /\ sensor_records = <<>> /\ results = <<>>
    /\ NoCall
    /\ store \in {<<>>, [Karpfen |-> 1010]}
    /\ sun_env \in {"ok", "raises"}
    /\ runs = <<>>
    /\ wall \in StartTimes
    /\ base_now = 0
    /\ sb_datetime = "datetime"
    /\ phase = "none"
    /\ loop_interval \in LoopIntervals

\* the imports of mqtt.py: forecast_morgen computes _BASE_NOW and rebinds the
\* name datetime of sensor_berechnung
ImportForecastMorgen ==
    /\ pc = "import"
    /\ base_now' = Tomorrow(wall)
    /\ sb_datetime' = "FrozenDateTime"
    /\ phase' = "live"
    /\ pc' = "load"
    /\ UNCHANGED <<now, month, sunrise, sunset, sensor_records, results,
                   fn_vars, main_vars, wall, loop_interval>>

\* load_and_process(): raw = load_sensor_data()
LiveLoad ==
    /\ pc = "load" /\ phase = "live"
    /\ sensor_records' \in LiveBatches
    /\ results' = <<>>
    /\ pc' = "clean"
    /\ UNCHANGED <<now, month, sunrise, sunset, fn_vars, main_vars, loop_vars>>

\* forecast_for_tomorrow(): raw = the forecast hours or the local sensor data
ForecastFetch ==
    /\ pc = "fetch" /\ phase = "forecast"
    /\ sensor_records' \in ForecastBatches
    /\ results' = <<>>
    /\ pc' = "clean"
    /\ UNCHANGED <<now, month, sunrise, sunset, fn_vars, main_vars, loop_vars>>

\* the sun anchors of the cycle; the engine starts and reads its clock
LoopSunTimes ==
    /\ pc = "sun" /\ phase \in {"live", "forecast"}
    /\ sunrise' = LoopAnchors(phase, sun_env, DatetimeNow(sb_datetime, wall, base_now),
                              base_now)[1]
    /\ sunset' = LoopAnchors(phase, sun_env, DatetimeNow(sb_datetime, wall, base_now),
                             base_now)[2]
    /\ now' = DatetimeNow(sb_datetime, wall, base_now)
    /\ pc' = "scoring"
    /\ UNCHANGED <<month, sensor_records, results, fn_vars, main_vars, loop_vars>>

\* the entry of a finished cycle in runs
LoopRun ==
    [kind |-> phase, records |-> sensor_records, results |-> results,
     sunrise |-> sunrise, sunset |-> sunset, now |-> now, wall |-> wall]

\* the live results are published; forecast_for_tomorrow() is called
ForecastStart ==
    /\ pc = "returned" /\ phase = "live"
    /\ runs' = Append(runs, LoopRun)
    /\ phase' = "forecast"
    /\ pc' = "fetch"
    /\ UNCHANGED <<now, month, sunrise, sunset, sensor_records, results, fn_vars,
                   store, sun_env, wall, base_now, sb_datetime, loop_interval>>

\* the forecast results are published; time.sleep(LOOP_INTERVAL)
Sleep ==
    /\ pc = "returned" /\ phase = "forecast"
    /\ Len(runs) + 1 <= 2 * MaxIterations
    /\ runs' = Append(runs, LoopRun)
    /\ wall' = wall + loop_interval
    /\ phase' = "live"
    /\ pc' = IF Len(runs) + 1 < 2 * MaxIterations THEN "load" ELSE "done"
    /\ UNCHANGED <<now, month, sunrise, sunset, sensor_records, results, fn_vars,
                   store, sun_env, base_now, sb_datetime, loop_interval>>

NextLoop ==
    \/ ImportForecastMorgen
    \/ LiveLoad
    \/ Clean
    \/ LoopSunTimes
    \/ ScoreRecord
    \/ Return
    \/ ForecastStart
    \/ ForecastFetch
    \/ Sleep

SpecLoop == InitLoop /\ [][NextLoop]_vars

-----------------------------------------------------------------------------
(* Properties *)

\* the record the loop is at
Current == sensor_records[Len(results) + 1]

\* C1: every returned Fangwahrscheinlichkeit is one of 0, 5, 10, ..., 100.
C1_ProbabilityIsMultipleOfFive ==
    \A i \in 1..Len(results) :
        results[i].Fangwahrscheinlichkeit \in {5 * k : k \in 0..20}

\* C2: the probability before the rain malus is 0 exactly when the raw score is 0
\* and at least 10 when the raw score is positive; the final probability is
\* never below 0.
C2_FloorAtTen ==
    \A i \in 1..Len(results) :
        /\ results[i].floored_prob = 0 <=> results[i].score = 0
        /\ results[i].score > 0 => results[i].floored_prob >= 10
        /\ results[i].Fangwahrscheinlichkeit >= 0

\* a returned batch with a zero-score record and a record whose positive score
\* rounds to 5 and is lifted to 10
C2_Witness ==
    /\ pc = "returned"
    /\ \E i \in 1..Len(results) :
          results[i].score = 0 /\ results[i].Fangwahrscheinlichkeit = 0
    /\ \E j \in 1..Len(results) :
          /\ results[j].score > 0
          /\ results[j].raw_prob = 5
          /\ results[j].floored_prob = 10

\* C3: a record whose surface temperature is missing is still processed: the
\* call does not abort on it, and its result carries no calculated temperature
\* or depth, temperature, depth and match scores of 0 and no match.
C3_MissingSurfaceTempIsProcessed ==
    /\ pc = "raised" =>
          ~(/\ IsNone(Current.Oberflaeche_temp)
            /\ get(Current.Windgeschwindigkeit, 0).tag = "num"
            /\ get(Current.cloudFraction, 0).tag = "num"
            /\ get(Current.precipIntensity, 0).tag = "num")
    /\ \A i \in 1..Len(results) :
          IsNone(results[i].rec.Oberflaeche_temp) =>
              /\ IsNone(results[i].Errechnete_Wassertemperatur)
              /\ IsNone(results[i].Errechnete_Wassertiefe)
              /\ results[i].parts.temp_score = 0
              /\ results[i].parts.depth_score = 0
              /\ results[i].parts.match_score = 0
              /\ ~results[i].TempTiefe_Match

\* C4: a record in which precipitation intensity, cloud fraction or wind speed
\* is null or absent (its surface temperature being known) does not make the
\* call raise, and a missing precipitation intensity counts as 0.0 mm/h: no rain
\* bonus and no rain malus.
C4_NullWeatherFieldsDoNotRaise ==
    /\ pc = "raised" =>
          ~(/\ ~IsNone(Current.Oberflaeche_temp)
            /\ \/ Current.Windgeschwindigkeit.tag # "num"
               \/ Current.cloudFraction.tag # "num"
               \/ Current.precipIntensity.tag # "num")
    /\ \A i \in 1..Len(results) :
          results[i].rec.precipIntensity.tag # "num" =>
              /\ results[i].added.Regen_Bonus = 0
              /\ results[i].Fangwahrscheinlichkeit = results[i].floored_prob

\* C5: with sunrise and sunset both unknown a result has no catch windows and a
\* time-of-day contribution of 0; with one of them unknown exactly the preferred
\* windows that need only the known anchor are built (Morgen needs sunrise,
\* Abend needs sunset, Tag and Nacht need both); an unknown anchor never makes
\* the call raise, so a batch of complete records gets a result per record.
C5_MissingSunTimes ==
    /\ \A i \in 1..Len(results) :
          /\ IsNone(sunrise) /\ IsNone(sunset) =>
                /\ DOMAIN results[i].Bestes_Fangfenster = {}
                /\ results[i].added.Tageszeitfenster = 0
          /\ DOMAIN results[i].Bestes_Fangfenster =
                {k \in Range(preferences(results[i].rec.Art).Bevorzugte_Tageszeit) :
                    \/ k = "Morgen" /\ ~IsNone(sunrise)
                    \/ k = "Abend" /\ ~IsNone(sunset)
                    \/ k \in {"Tag", "Nacht"} /\ ~IsNone(sunrise) /\ ~IsNone(sunset)}
    /\ pc = "raised" =>
          \/ IsNone(Current.Oberflaeche_temp)
          \/ get(Current.Windgeschwindigkeit, 0).tag = "null"
          \/ get(Current.cloudFraction, 0).tag = "null"
          \/ get(Current.precipIntensity, 0).tag = "null"
    /\ pc = "returned" => Len(results) = Len(sensor_records)

\* a returned batch of two records without sunrise: the evening window of a
\* species that prefers morning and evening is the only one built
C5_Witness ==
    /\ pc = "returned"
    /\ IsNone(sunrise) /\ ~IsNone(sunset)
    /\ Len(results) = 2
    /\ \E i \in 1..Len(results) :
          /\ {"Morgen", "Abend"} \subseteq
                Range(preferences(results[i].rec.Art).Bevorzugte_Tageszeit)
          /\ DOMAIN results[i].Bestes_Fangfenster = {"Abend"}

\* C6: with p the percentage after rounding up to a multiple of 5 and after the
\* floor at 10, Fangwahrscheinlichkeit is max(0, p - Regen_Malus) when the
\* precipitation intensity is above 5 mm/h, and p otherwise.
C6_RainMalus ==
    \A i \in 1..Len(results) :
        LET p == IF results[i].score > 0
                 THEN Max(10, round_to_next_five(results[i].score * 100,
                                                 total_weight * 1000))
                 ELSE 0
        IN  results[i].Fangwahrscheinlichkeit =
                IF get(results[i].rec.precipIntensity, 0).v > 5000
                THEN Max(0, p - Weight("Regen_Malus"))
                ELSE p

\* heavy rain on a record whose percentage was lifted to the floor of 10
C6_Witness ==
    \E i \in 1..Len(results) :
        /\ get(results[i].rec.precipIntensity, 0).v > 5000
        /\ results[i].floored_prob = 10
        /\ results[i].Fangwahrscheinlichkeit = 10 - Weight("Regen_Malus")

\* C7: when sunrise is before sunset, every catch window that is built starts
\* strictly before it ends.
C7_WindowStartBeforeEnd ==
    \A i \in 1..Len(results) :
        \A k \in DOMAIN results[i].windows :
            (~IsNone(sunrise) /\ ~IsNone(sunset) /\ sunrise.v < sunset.v) =>
                results[i].windows[k][1] < results[i].windows[k][2]

\* C8: for a record with a known surface temperature, what temperature and depth
\* add to the raw score is temp_score + depth_score + match_score.
C8_TempAndDepthContribution ==
    \A i \in 1..Len(results) :
        ~IsNone(results[i].rec.Oberflaeche_temp) =>
            results[i].added.Temperatur + results[i].added.Wassertiefe
                + results[i].added.TempTiefe_Match =
            results[i].parts.temp_score + results[i].parts.depth_score
                + results[i].parts.match_score

\* C9: the moon phase adds its full weight to the raw score when the preferred
\* phases include 'Alle', the current phase, or 'Halbmond' while the current
\* phase is a half moon; otherwise it adds 0.
C9_MoonPhaseContribution ==
    \A i \in 1..Len(results) :
        results[i].added.Mondphase =
            IF MoonMatches(results[i].rec, preferences(results[i].rec.Art))
            THEN 1000 * Weight("Mondphase") ELSE 0

\* C10: for a species that prefers 'windig' the wind speed adds 0 below 4 m/s,
\* rises linearly from 0 at 4 m/s to the full Windig weight at 8 m/s, and adds
\* the full weight above 8 m/s; for any other species it adds 0.
C10_WindSpeedRamp ==
    \A i \in 1..Len(results) :
        results[i].added.Windig =
            LET w == get(results[i].rec.Windgeschwindigkeit, 0).v
            IN  IF "windig" \notin
                      Range(preferences(results[i].rec.Art).Bevorzugte_Wetter)
                THEN 0
                ELSE IF w < 4000 THEN 0
                ELSE IF w <= 8000
                     THEN (1000 * Weight("Windig") * (w - 4000)) \div 4000
                ELSE 1000 * Weight("Windig")

\* C11: when the instant is before sunrise or after sunset and the species
\* prefers 'Nacht', the score holds a night bonus on top of the contributions
\* of the factors, the time-of-day windows included.
C11_NightBonus ==
    \A i \in 1..Len(results) :
        (/\ IsNight(now, sunrise, sunset)
         /\ "Nacht" \in Range(preferences(results[i].rec.Art).Bevorzugte_Tageszeit)) =>
            results[i].score >
                results[i].added.TempTiefe_Match + results[i].added.Windrichtung
                    + results[i].added.Truebung + results[i].added.Saison
                    + results[i].added.Bewoelkung + results[i].added.Regen_Bonus
                    + results[i].added.Luftdruck_trend
                    + results[i].added.Tageszeitfenster

\* C12: the pressure trend adds the full Luftdruck_trend weight when the
\* observed trend equals a preferred label (as written or as its synonym), 40 %
\* of the weight when it matches only a preference that starts with 'leicht'
\* after the mapping, and nothing when no preference matches.
C12_TrendFortyPercent ==
    \A i \in 1..Len(results) :
        LET trend == Lower(getLabel(results[i].rec.Luftdruck_trend, "unbekannt"))
            raw == LowerAll(preferences(results[i].rec.Art).Bevorzugter_Luftdrucktrend)
            leicht == {"leicht fallend", "leicht steigend"}
        IN  results[i].added.Luftdruck_trend =
                IF trend \in {TrendMapped(r) : r \in raw \ leicht}
                THEN 1000 * Weight("Luftdruck_trend")
                ELSE IF trend \in {TrendMapped(r) : r \in raw \cap leicht}
                     THEN 400 * Weight("Luftdruck_trend")
                ELSE 0

\* C13: the season adds the full Saison weight when the current month is among
\* the best-season months, half of it when the previous or the next month is
\* (December before January, January after December), and nothing otherwise;
\* best season 6, 7, 8 gives the full weight in month 7 and half in month 5.
C13_SeasonAdjacency ==
    \A i \in 1..Len(results) :
        LET best == Range(preferences(results[i].rec.Art).Beste_Fangsaison)
        IN  /\ results[i].added.Saison =
                  IF month \in best THEN 1000 * Weight("Saison")
                  ELSE IF ((month + 10) % 12) + 1 \in best \/ (month % 12) + 1 \in best
                       THEN 500 * Weight("Saison")
                  ELSE 0
            /\ best = {6, 7, 8} /\ month = 7 =>
                  results[i].added.Saison = 1000 * Weight("Saison")
            /\ best = {6, 7, 8} /\ month = 5 =>
                  results[i].added.Saison = 500 * Weight("Saison")

\* January for a species whose best season ends in December: half the weight
\* comes from the wraparound
C13_Witness ==
    \E i \in 1..Len(results) :
        /\ month = 1
        /\ Range(preferences(results[i].rec.Art).Beste_Fangsaison) = {9, 10, 11, 12}
        /\ results[i].added.Saison = 500 * Weight("Saison")
        /\ results[i].score >= results[i].added.Saison

\* C14: in season 'Sommer' temp_profile never returns less than 4.0 degC, at
\* any depth >= 0, surface temperature and wind speed.
C14_SummerNotBelowFour ==
    (/\ call.fn = "temp_profile" /\ Len(ret) = 1
     /\ call.args[3] = "Sommer" /\ call.args[1] >= 0) =>
        ret[1] >= 4000

\* C15: in season 'Winter' temp_profile at depth 0 never returns more than the
\* surface temperature it was given.
C15_WinterSurfaceNotAbove ==
    (/\ call.fn = "temp_profile" /\ Len(ret) = 1
     /\ call.args[3] = "Winter" /\ call.args[1] = 0) =>
        ret[1] <= call.args[2]

\* C16: grad_to_windrichtung maps bearing 0 to 'N', bearing 22 to 'N', bearing
\* 44 to 'NO' and bearing 180 to 'S'.
C16_WindDirMapping ==
    (call.fn = "grad_to_windrichtung" /\ Len(ret) = 1) =>
        /\ call.args[1] = Num(0) => ret[1] = "N"
        /\ call.args[1] = Num(22) => ret[1] = "N"
        /\ call.args[1] = Num(44) => ret[1] = "NO"
        /\ call.args[1] = Num(180) => ret[1] = "S"

\* the call with bearing 44 has returned 'NO'
C16_Witness ==
    /\ call.fn = "grad_to_windrichtung"
    /\ call.args[1] = Num(44)
    /\ ret = <<"NO">>

\* C16 as stated: bearing 0 gives 'N', bearing 44 gives 'N', bearing 180 gives 'S'.
C16_AsStated ==
    (call.fn = "grad_to_windrichtung" /\ Len(ret) = 1) =>
        /\ call.args[1] = Num(0) => ret[1] = "N"
        /\ call.args[1] = Num(44) => ret[1] = "N"
        /\ call.args[1] = Num(180) => ret[1] = "S"

\* C19: when the configuration document is missing, is not valid JSON, lacks
\* the section or holds a section that is not a mapping, load_weights and
\* load_buffers return the built-in default tables.
C19_ConfigFallback ==
    /\ (/\ call.fn = "load_weights" /\ Len(ret) = 1
        /\ (call.args[1].kind # "object" \/ call.args[1].weights # "mapping")) =>
            ret[1] = DefaultWeights
    /\ (/\ call.fn = "load_buffers" /\ Len(ret) = 1
        /\ (call.args[1].kind # "object" \/ call.args[1].buffers # "mapping")) =>
            ret[1] = DefaultBuffers

C18_CyclesIdempotent ==
    \A k \in 1..(Len(runs) - 1) :
        (/\ Len(runs[k].records) = Len(runs[k + 1].records)
         /\ \A i \in 1..Len(runs[k].records) :
               [runs[k].records[i] EXCEPT !.Luftdruck_trend = ""] =
               [runs[k + 1].records[i] EXCEPT !.Luftdruck_trend = ""]
         /\ runs[k].sunrise = runs[k + 1].sunrise
         /\ runs[k].sunset = runs[k + 1].sunset) =>
            runs[k].results = runs[k + 1].results

\* C20: whenever main() cannot obtain sun times (coordinates missing, or the
\* sunrise or sunset computation fails), the anchors it hands to
\* compute_catch_probability_and_window are 05:00 and 21:00, never null.
C20_SunTimeFallback ==
    (/\ pc \in {"scoring", "returned"}
     /\ sun_env \in {"no_coords", "sunrise_fails", "sunset_fails", "raises"}) =>
        /\ sunrise = Num(Clock(5, 0))
        /\ sunset = Num(Clock(21, 0))

C22_MidnightWindow ==
    (call.fn = "time_in_window" /\ Len(ret) = 1) =>
        LET t == call.args[1]
            s == call.args[2]
            e == call.args[3]
        IN  /\ s > e => (ret[1] <=> (t >= s \/ t <= e))
            /\ (s = Clock(20, 0) /\ e = Clock(6, 0)) =>
                  /\ t \in {Clock(23, 0), Clock(2, 0)} => ret[1]
                  /\ t = Clock(12, 0) => ~ret[1]
            /\ (s = Clock(20, 0) /\ e = Clock(6, 0) + DayMs) =>
                  /\ t \in {Clock(23, 0), Clock(2, 0) + DayMs} => ret[1]
                  /\ t \in {Clock(12, 0), Clock(12, 0) + DayMs} => ~ret[1]

\* 02:00 was found inside the window that starts at 20:00 and ends at 06:00
C22_Witness ==
    /\ call.fn = "time_in_window"
    /\ call.args = <<Clock(2, 0), Clock(20, 0), Clock(6, 0)>>
    /\ ret = <<TRUE>>

\* C23: in every forecast cycle of the publish loop the engine runs with now
\* at 00:00 of the calendar day after the day on which the cycle happens.
C23_ForecastNowIsNextMidnight ==
    (phase = "forecast" /\ pc \in {"scoring", "returned"}) =>
        now = Tomorrow(wall)

\* C26: in every live cycle of the publish loop the engine runs with now at
\* the real instant of that iteration.
C26_LiveNowIsRealInstant ==
    (phase = "live" /\ pc \in {"scoring", "returned"}) =>
        now = wall

\* C27: from the second iteration of the publish loop on, the pressure trend of
\* a record of the live cycle is 'steigend', 'fallend' or 'stagnierend' as its
\* pressure is above, below or equal to the pressure the same species had in
\* the live cycle of the preceding iteration.
C27_LiveTrendFromLastLiveCycle ==
    (phase = "live" /\ pc \in {"sun", "scoring", "returned"} /\ Len(runs) >= 2) =>
        \A i \in 1..Len(sensor_records) :
            \A r \in Range(runs[Len(runs) - 1].records) :
                (/\ runs[Len(runs) - 1].kind = "live"
                 /\ r.Art = sensor_records[i].Art
                 /\ r.Luftdruck.tag = "num"
                 /\ sensor_records[i].Luftdruck.tag = "num") =>
                    sensor_records[i].Luftdruck_trend =
                        IF sensor_records[i].Luftdruck.v > r.Luftdruck.v THEN "steigend"
                        ELSE IF sensor_records[i].Luftdruck.v < r.Luftdruck.v THEN "fallend"
                        ELSE "stagnierend"

C25_DepthWithinPreferred ==
    (call.fn = "choose_best_depth" /\ Len(ret) = 1 /\ call.args[3] # <<>>) =>
        LET depths == Range(call.args[3])
            lo == CHOOSE d \in depths : \A x \in depths : d <= x
            hi == CHOOSE d \in depths : \A x \in depths : d >= x
            bias == call.args[5]
            unbiased == choose_best_depth(call.args[1], call.args[2], call.args[3],
                                          call.args[4], "none", call.args[6], call.args[7])
        IN  /\ lo <= ret[1] /\ ret[1] <= hi
            /\ unbiased \in depths
            /\ bias = "none" => ret[1] = unbiased
            /\ bias = "flach" => unbiased - 500 <= ret[1] /\ ret[1] <= unbiased
            /\ bias = "tief" => unbiased <= ret[1] /\ ret[1] <= unbiased + 500

\* the bias 'flach' moved the choice from 2.2 m to the shallowest preferred
\* depth of 2.0 m, less than 0.5 m
C25_Witness ==
    /\ call.fn = "choose_best_depth"
    /\ call.args[3] = <<2200, 2000>>
    /\ call.args[5] = "flach"
    /\ choose_best_depth(call.args[1], call.args[2], call.args[3], call.args[4],
                         "none", call.args[6], call.args[7]) = 2200
    /\ ret = <<2000>>

\* C28: for a species that prefers 'Nacht', with sunrise before sunset on the
\* current day, an instant of that day between midnight and sunrise plus the
\* night buffer lies inside the night window that was built and receives the
\* time-of-day contribution.
C28_AfterMidnightIsNight ==
    \A i \in 1..Len(results) :
        LET r == results[i].rec
            nightb == 30 * 60 * (2000 - light_modifier(get(r.cloudFraction, 0).v,
                                                      get(r.Windgeschwindigkeit, 0).v,
                                                      get(r.precipIntensity, 0).v))
        IN  (/\ "Nacht" \in Range(preferences(r.Art).Bevorzugte_Tageszeit)
             /\ ~IsNone(sunrise) /\ ~IsNone(sunset)
             /\ sunrise.v < sunset.v
             /\ 0 <= now /\ now < sunrise.v + nightb) =>
                /\ "Nacht" \in DOMAIN results[i].windows
                /\ time_in_window(now, results[i].windows["Nacht"][1],
                                  results[i].windows["Nacht"][2])
                /\ results[i].added.Tageszeitfenster > 0

\* C29: the time-of-day contribution of a record never exceeds the
\* Tageszeitfenster weight: when now is inside or within one hour of one or of
\* several of the windows, it is weight * max(0.4, L), counted once.
C29_TimeOfDayCountedOnce ==
    \A i \in 1..Len(results) :
        LET r == results[i].rec
            L == light_modifier(get(r.cloudFraction, 0).v,
                                get(r.Windgeschwindigkeit, 0).v,
                                get(r.precipIntensity, 0).v)
            w == results[i].windows
            near == {k \in DOMAIN w :
                        \/ time_in_window(now, w[k][1], w[k][2])
                        \/ time_in_window(now, w[k][1] - HourMs, w[k][1])
                        \/ time_in_window(now, w[k][2], w[k][2] + HourMs)}
        IN  /\ results[i].added.Tageszeitfenster <= 1000 * Weight("Tageszeitfenster")
            /\ near # {} =>
                  results[i].added.Tageszeitfenster =
                      Weight("Tageszeitfenster") * (IF L > 400 THEN L ELSE 400)

\* C30: for a record without preset actual_depth (its surface temperature being
\* known) the bias handed to choose_best_depth is 'flach', whatever the clock
\* time and the sun anchors: the calculated depth is the one chosen under
\* 'flach'.
C30_BiasAlwaysFlach ==
    \A i \in 1..Len(results) :
        LET r == results[i].rec
            p == preferences(r.Art)
        IN  (IsNone(r.actual_depth) /\ ~IsNone(r.Oberflaeche_temp)) =>
                /\ TodBias(now, get(r.cloudFraction, 0).v, get(r.Windgeschwindigkeit, 0).v,
                           get(r.precipIntensity, 0).v) = "flach"
                /\ results[i].Errechnete_Wassertiefe =
                      Num(choose_best_depth(r.Oberflaeche_temp.v, get_season(month),
                              PreferredDepths(p, get_season(month)),
                              p.Bevorzugte_Wassertemperatur, "flach",
                              get(r.Windgeschwindigkeit, 0).v, get(r.cloudFraction, 0).v))

\* at noon, far from sunrise and sunset, the calculated depth is 0.5 m above
\* the depth chosen without bias
C30_Witness ==
    /\ now = Clock(12, 0)
    /\ sunrise = Num(Clock(6, 0)) /\ sunset = Num(Clock(20, 0))
    /\ \E i \in 1..Len(results) :
          LET r == results[i].rec
              p == preferences(r.Art)
          IN  /\ IsNone(r.actual_depth) /\ ~IsNone(r.Oberflaeche_temp)
              /\ results[i].Errechnete_Wassertiefe =
                    Num(choose_best_depth(r.Oberflaeche_temp.v, get_season(month),
                            PreferredDepths(p, get_season(month)),
                            p.Bevorzugte_Wassertemperatur, "none",
                            get(r.Windgeschwindigkeit, 0).v, get(r.cloudFraction, 0).v)
                        - 500)

=============================================================================
